---- MODULE Spec2Model ----
(***************************************************************************)
(* Aquarius asset API (aquarius/app/assets.py): the Flask route handlers   *)
(* of the "assets" blueprint, the authorization rule of the two write      *)
(* endpoints, the DID escaping of POST /ddo/query, the shape handling of   *)
(* POST /ddo/validate-remote, and the Metadata Updater the write endpoints *)
(* trigger.  The handlers are translated from assets.py.  The collaborators*)
(* assets.py imports but the source tree does not hold (Dao, auth_util,    *)
(* util.get_metadata_from_services, MetadataUpdater) are modelled from     *)
(* their contracts in spec.md and are marked so in MODEL_MAP.json.         *)
(***************************************************************************)
EXTENDS Integers, Sequences, FiniteSets, TLC

-----------------------------------------------------------------------------
(* Bounds of the model.                                                    *)

\* on-chain events the Chain Event Source reports in a run, over all DIDs
MaxEvents == 2
\* tokens of a query string handed to POST /ddo/query
MaxLen == 8
\* entries of the `service` list of a DDO handed to POST /ddo/validate-remote
MaxServices == 3

-----------------------------------------------------------------------------
(* Values.                                                                 *)

\* Python's None, and a JSON key that is absent (dict.get(key, None))
None == "None"

\* request.remote_addr
Loopback == "127.0.0.1"
RemoteAddrs == {Loopback, "10.0.0.7"}

\* worker threads of the WSGI server, each serving one request at a time
Reqs == {"w1", "w2"}

\* DIDs: two stored records with resolvable on-chain linkage, one stored
\* record whose dataTokenInfo linkage is malformed, one DID not stored
Resolvable == {"did:op:a", "did:op:b"}
InMain == Resolvable \cup {"did:op:bad"}

\* "0xab" is the lower-case spelling of "0xAB" (str.lower)
Addresses == {"0xAB", "0xab", "0xCD"}
Lower(a) == IF a = "0xAB" THEN "0xab" ELSE IF a = "0xCD" THEN "0xcd" ELSE a

\* signatures: by the key of 0xAB, by the key of 0xCD, and bytes that recover
\* to nothing
Signatures == {"sigAB", "sigCD", "garbage"}

\* the configured allow-list of permitted updaters
AllowList == {"0xAB", "0xab"}

\* Python truthiness of a str-or-None value
Truthy(v) == v # None /\ v # ""

\* JSON bodies of the write endpoints.  `other` says the object holds some
\* key besides adminAddress and signature; the empty object {} has none.
Bodies ==
    { b \in [adminAddress : {None, ""} \cup Addresses,
             signature : {None, ""} \cup Signatures,
             other : BOOLEAN] :
        b.other => (b.adminAddress = None /\ b.signature = None) }
\* bool(request.json): a dict is truthy iff it has a key
NonEmpty(data) ==
    data.adminAddress # None \/ data.signature # None \/ data.other

\* the credentials of a permitted updater
GoodBody == [adminAddress |-> "0xab", signature |-> "sigAB", other |-> FALSE]

-----------------------------------------------------------------------------
(* State.                                                                  *)

VARIABLES
    slot,    \* per worker: the write request it is serving and where it stands
    recv,    \* the write request the last step accepted or refused (at most one)
    resp,    \* the response the last step sent (at most one)
    main,    \* main index: per stored DID, the record's reconciliation fields
    plus,    \* "<main>_plus" index: per stored DID, the derived entry
    chain,   \* Chain Event Source: per DID, the events observed so far
    locked,  \* DIDs whose reconciliation is in flight
    inbox,   \* a POST /ddo/query or /ddo/validate-remote request not yet served
    sent     \* the query document handed to dao.run_es_query, the document
             \* handed to the remote validator (at most one)

vars == <<slot, recv, resp, main, plus, chain, locked, inbox, sent>>
store == <<main, plus>>

Idle == [pc |-> "idle", ep |-> None, did |-> None, seen |-> 0, writes |-> 0]

\* the plus entry a main record calls for: none once the asset is purged,
\* else the fields derived from the record's plus-relevant version
Expected(m) ==
    IF m.purg THEN [present |-> FALSE, pv |-> 0]
    ELSE [present |-> TRUE, pv |-> m.pv]

\* the content of a main record, the dirty marker aside
Content(m) == <<m.marker, m.purg, m.pv>>

EventKinds == {"update", "edit", "retire"}

Init ==
    /\ slot = [r \in Reqs |-> Idle]
    /\ recv = {}
    /\ resp = {}
    /\ main = [d \in InMain |->
                 [marker |-> 0, purg |-> FALSE, pv |-> 0, dirty |-> FALSE]]
    /\ plus = [d \in InMain |-> [present |-> TRUE, pv |-> 0]]
    /\ chain = [d \in Resolvable |-> <<>>]
    /\ locked = {}
    /\ inbox = {}
    /\ sent = {}

-----------------------------------------------------------------------------
(* Auth Oracle.                                                            *)

\* the address the signature recovers to, None when recovery fails
get_signer_address(address, signature) ==
    CASE signature = "sigAB" -> "0xAB"
      [] signature = "sigCD" -> "0xCD"
      [] OTHER -> None

has_update_request_permission(address) == address \in AllowList

\* the comparison of line 312 without the two lower() calls
signed_by_admin_exact(data) ==
    LET address == data.adminAddress
        signature == data.signature
        _address == IF Truthy(signature)
                    THEN get_signer_address(address, signature)
                    ELSE None
    IN  /\ Truthy(address)
        /\ has_update_request_permission(address)
        /\ Truthy(_address)
        /\ _address = address

\* lines 303-313, shared by update_ddo_info and delist_ddo (338-348):
\* TRUE when the handler goes on, FALSE when it returns 401
signed_by_admin(data) ==
    LET address == data.adminAddress
        signature == data.signature
        _address == IF Truthy(signature)
                    THEN get_signer_address(address, signature)
                    ELSE None
    IN  /\ Truthy(address)
        /\ has_update_request_permission(address)
        /\ Truthy(_address)
        /\ Lower(_address) = Lower(address)

-----------------------------------------------------------------------------
(* Responses.                                                              *)

\* calls: the do_single_update calls the request made; writes: the index
\* writes those calls completed
Response(ep, did, status, fmt, body, err, calls, writes) ==
    [ep |-> ep, did |-> did, status |-> status, fmt |-> fmt, body |-> body,
     err |-> err, calls |-> calls, writes |-> writes]

\* worker r answers and is free again
Reply(r, status, fmt, body, err, calls, writes) ==
    /\ resp' = {Response(slot[r].ep, slot[r].did, status, fmt, body, err, calls,
                          writes)}
    /\ slot' = [slot EXCEPT ![r] = Idle]

Received(ep, remote, data, pass) ==
    [ep |-> ep, remote |-> remote, data |-> data, pass |-> pass]

\* the last exchange has left the server: a request is taken off the listen
\* queue only then
Drained == recv = {} /\ resp = {}

Drain ==
    /\ ~Drained
    /\ recv' = {}
    /\ resp' = {}
    /\ sent' = {}
    /\ UNCHANGED <<slot, main, plus, chain, locked, inbox>>

-----------------------------------------------------------------------------
(* Record Store reads (Dao.get).                                           *)

\* what dao.get(did) can do: hand back the stored record; for a DID that is
\* not stored, hand back nothing or raise the store's not-found error (the
\* handlers provide for both)
dao_get_outcomes(did) ==
    IF did \in InMain THEN {"record"} ELSE {"none", "raise"}

-----------------------------------------------------------------------------
(* The write endpoints: PUT /ddo/update/<did> and DELETE /ddo/<did>.       *)

\* PUT with the authorization moved behind the reconciliation: a refused
\* request has already had do_single_update run on the record
update_ddo_info_late_auth(r, did, remote, data) ==
    /\ slot[r].pc = "idle"
    /\ Drained
    /\ NonEmpty(data)
    /\ IF remote # Loopback /\ ~signed_by_admin(data)
       THEN /\ recv' = {Received("update_ddo_info", remote, data, FALSE)}
            /\ resp' = {Response("update_ddo_info", did, 401, "json",
                                 "Unauthorized.", None, 1, 0)}
            /\ slot' = slot
       ELSE /\ recv' = {Received("update_ddo_info", remote, data, TRUE)}
            /\ resp' = {}
            /\ slot' = [slot EXCEPT ![r] =
                          [pc |-> "get", ep |-> "update_ddo_info", did |-> did,
                           seen |-> 0, writes |-> 0]]
    /\ UNCHANGED <<main, plus, chain, locked, inbox, sent>>

\* lines 299-313: the payload assertion and the authorization of PUT.
\* A failed assertion is an unhandled AssertionError: Flask answers 500.
update_ddo_info(r, did, remote, data) ==
    /\ slot[r].pc = "idle"
    /\ Drained
    /\ IF ~NonEmpty(data)
       THEN /\ recv' = {Received("update_ddo_info", remote, data, FALSE)}
            /\ resp' = {Response("update_ddo_info", did, 500, "html",
                                 "AssertionError", "AssertionError", 0, 0)}
            /\ slot' = slot
       ELSE IF remote # Loopback /\ ~signed_by_admin(data)
       THEN /\ recv' = {Received("update_ddo_info", remote, data, FALSE)}
            /\ resp' = {Response("update_ddo_info", did, 401, "json",
                                 "Unauthorized.", None, 0, 0)}
            /\ slot' = slot
       ELSE /\ recv' = {Received("update_ddo_info", remote, data, TRUE)}
            /\ resp' = {}
            /\ slot' = [slot EXCEPT ![r] =
                          [pc |-> "get", ep |-> "update_ddo_info", did |-> did,
                           seen |-> 0, writes |-> 0]]
    /\ UNCHANGED <<main, plus, chain, locked, inbox, sent>>

\* lines 336-348: the payload assertion and the authorization of DELETE
delist_ddo(r, did, remote, data) ==
    /\ slot[r].pc = "idle"
    /\ Drained
    /\ IF ~NonEmpty(data)
       THEN /\ recv' = {Received("delist_ddo", remote, data, FALSE)}
            /\ resp' = {Response("delist_ddo", did, 500, "html",
                                 "AssertionError", "AssertionError", 0, 0)}
            /\ slot' = slot
       ELSE IF ~signed_by_admin(data)
       THEN /\ recv' = {Received("delist_ddo", remote, data, FALSE)}
            /\ resp' = {Response("delist_ddo", did, 401, "json",
                                 "Unauthorized.", None, 0, 0)}
            /\ slot' = slot
       ELSE /\ recv' = {Received("delist_ddo", remote, data, TRUE)}
            /\ resp' = {}
            /\ slot' = [slot EXCEPT ![r] =
                          [pc |-> "get", ep |-> "delist_ddo", did |-> did,
                           seen |-> 0, writes |-> 0]]
    /\ UNCHANGED <<main, plus, chain, locked, inbox, sent>>

\* lines 315-318 and 329-331 (350-353 and 365-367 in delist_ddo):
\* asset_record = dao.get(did)
dao_get(r) ==
    /\ slot[r].pc = "get"
    /\ \E o \in dao_get_outcomes(slot[r].did) :
         CASE o = "record" ->
                /\ slot' = [slot EXCEPT ![r].pc = "call"]
                /\ resp' = {}
           [] o = "none" ->
                Reply(r, 404, "json", "Asset not found.", None, 0, 0)
           [] o = "raise" ->
                Reply(r, 404, "text", "asset DID is not in OceanDB",
                      "NotFound", 0, 0)
    /\ recv' = {}
    /\ UNCHANGED <<main, plus, chain, locked, inbox, sent>>

\* line 328: return jsonify("acknowledged."), 200
Acknowledge(r, writes) ==
    Reply(r, 200, "json", "acknowledged.", None, 1, writes)

\* lines 329-331: except Exception -> the plain-text 404
Caught(r, err) ==
    Reply(r, 404, "text", "asset DID is not in OceanDB", err, 1, slot[r].writes)

-----------------------------------------------------------------------------
(* Metadata Updater: updater.do_single_update(asset_record), line 326.     *)
(* The call is made of store and chain I/O; each blocking call is a step.  *)
(* The record's reconciliation fields (last-processed marker, dirty        *)
(* marker) are read from the main index under the per-DID lease.           *)

Events == Cardinality({<<d, i>> \in Resolvable \X (1..MaxEvents) :
                          i <= Len(chain[d])})

\* the Chain Event Source observes one more event for d
ChainEvent(d, kind) ==
    /\ Events < MaxEvents
    /\ chain' = [chain EXCEPT ![d] = Append(@, kind)]
    /\ recv' = {}
    /\ resp' = {}
    /\ UNCHANGED <<slot, main, plus, locked, inbox, sent>>

\* entry without the per-DID lease
do_single_update_begin_unlocked(r) ==
    /\ slot[r].pc = "call"
    /\ LET d == slot[r].did IN
       IF d \notin Resolvable
       THEN /\ Caught(r, "InvalidRecord")
            /\ UNCHANGED locked
       ELSE /\ locked' = locked \cup {d}
            /\ slot' = [slot EXCEPT ![r].pc =
                          IF main[d].dirty THEN "plus" ELSE "events"]
            /\ resp' = {}
    /\ recv' = {}
    /\ UNCHANGED <<main, plus, chain, inbox, sent>>

\* step 1: resolve the on-chain identifier (InvalidRecord, no writes), take
\* the DID's lease, and route a record left dirty to the repair path
do_single_update_begin(r) ==
    /\ slot[r].pc = "call"
    /\ LET d == slot[r].did IN
       IF d \notin Resolvable
       THEN /\ Caught(r, "InvalidRecord")
            /\ UNCHANGED locked
       ELSE /\ d \notin locked
            /\ locked' = locked \cup {d}
            /\ slot' = [slot EXCEPT ![r].pc =
                          IF main[d].dirty THEN "plus" ELSE "events"]
            /\ resp' = {}
    /\ recv' = {}
    /\ UNCHANGED <<main, plus, chain, inbox, sent>>

\* the event query that applies the latest event whatever the marker says
do_single_update_events_nomarker(r) ==
    /\ slot[r].pc = "events"
    /\ LET d == slot[r].did
           latest == Len(chain[d])
       IN  \/ /\ Caught(r, "TransientUnavailable")
              /\ locked' = locked \ {d}
           \/ /\ latest = 0
              /\ Acknowledge(r, slot[r].writes)
              /\ locked' = locked \ {d}
           \/ /\ latest > 0
              /\ slot' = [slot EXCEPT ![r].pc = "main", ![r].seen = latest]
              /\ resp' = {}
              /\ UNCHANGED locked
    /\ recv' = {}
    /\ UNCHANGED <<main, plus, chain, inbox, sent>>

\* steps 2-3: query the Chain Event Source for the latest event; it may be
\* unreachable (TransientUnavailable, no writes); no event newer than the
\* last-processed marker is a no-op that returns success
do_single_update_events(r) ==
    /\ slot[r].pc = "events"
    /\ LET d == slot[r].did
           latest == Len(chain[d])
       IN  \/ /\ Caught(r, "TransientUnavailable")
              /\ locked' = locked \ {d}
           \/ /\ latest <= main[d].marker
              /\ Acknowledge(r, slot[r].writes)
              /\ locked' = locked \ {d}
           \/ /\ latest > main[d].marker
              /\ slot' = [slot EXCEPT ![r].pc = "main", ![r].seen = latest]
              /\ resp' = {}
              /\ UNCHANGED locked
    /\ recv' = {}
    /\ UNCHANGED <<main, plus, chain, inbox, sent>>

\* the main write that leaves the dirty marker for the failure path to set
Applied_unflagged(m, kind, seen, entry) ==
    [marker |-> seen,
     purg |-> (m.purg \/ kind = "retire"),
     pv |-> IF kind = "update" THEN seen ELSE m.pv,
     dirty |-> FALSE]

\* the main record after the event at position `seen` is applied: content,
\* last-processed marker and dirty marker go in one single-index write
Applied(m, kind, seen, entry) ==
    LET n == [marker |-> seen,
              purg |-> (m.purg \/ kind = "retire"),
              pv |-> IF kind = "update" THEN seen ELSE m.pv,
              dirty |-> FALSE]
    IN  [n EXCEPT !.dirty = (Expected(n) # entry)]

\* steps 4-6: the main-index write (it may fail: TransientUnavailable, no
\* writes); when the plus entry needs no change the call is done
do_single_update_main(r) ==
    /\ slot[r].pc = "main"
    /\ LET d == slot[r].did
           n == Applied(main[d], chain[d][slot[r].seen], slot[r].seen, plus[d])
       IN  \/ /\ Caught(r, "TransientUnavailable")
              /\ locked' = locked \ {d}
              /\ UNCHANGED main
           \/ /\ main' = [main EXCEPT ![d] = n]
              /\ IF Expected(n) # plus[d]
                 THEN /\ slot' = [slot EXCEPT ![r].pc = "plus",
                                               ![r].writes = @ + 1]
                      /\ resp' = {}
                      /\ UNCHANGED locked
                 ELSE /\ Acknowledge(r, slot[r].writes + 1)
                      /\ locked' = locked \ {d}
    /\ recv' = {}
    /\ UNCHANGED <<plus, chain, inbox, sent>>

\* the plus-index write, of a reconciliation (seen > 0) or of a repair
\* (seen = 0).  A failure leaves the record dirty and is not surfaced to the
\* caller.
do_single_update_plus(r) ==
    /\ slot[r].pc = "plus"
    /\ LET d == slot[r].did
       IN  \/ /\ plus' = [plus EXCEPT ![d] = Expected(main[d])]
              /\ slot' = [slot EXCEPT ![r].pc = "clear", ![r].writes = @ + 1]
              /\ resp' = {}
              /\ UNCHANGED locked
           \/ /\ Acknowledge(r, slot[r].writes)
              /\ locked' = locked \ {d}
              /\ UNCHANGED plus
    /\ recv' = {}
    /\ UNCHANGED <<main, chain, inbox, sent>>

\* the main-index write that clears the dirty marker (it may fail:
\* TransientUnavailable, the marker stays); a repair goes on to the event
\* query, a reconciliation returns
do_single_update_clear(r) ==
    /\ slot[r].pc = "clear"
    /\ LET d == slot[r].did
       IN  \/ /\ Caught(r, "TransientUnavailable")
              /\ locked' = locked \ {d}
              /\ UNCHANGED main
           \/ /\ main' = [main EXCEPT ![d].dirty = FALSE]
              /\ IF slot[r].seen = 0
                 THEN /\ slot' = [slot EXCEPT ![r].pc = "events",
                                               ![r].writes = @ + 1]
                      /\ resp' = {}
                      /\ UNCHANGED locked
                 ELSE /\ Acknowledge(r, slot[r].writes + 1)
                      /\ locked' = locked \ {d}
    /\ recv' = {}
    /\ UNCHANGED <<plus, chain, inbox, sent>>

-----------------------------------------------------------------------------
(* The read endpoints.                                                     *)

\* lines 54-66 and 97-114: GET / and GET /ddo list the stored records
get_assets_ids(r) ==
    /\ slot[r].pc = "idle"
    /\ Drained
    /\ resp' = {Response("get_assets_ids", None, 200, "json", "ids", None, 0, 0)}
    /\ recv' = {}
    /\ UNCHANGED <<slot, main, plus, chain, locked, inbox, sent>>

get_asset_ddos(r) ==
    /\ slot[r].pc = "idle"
    /\ Drained
    /\ resp' = {Response("get_asset_ddos", None, 200, "json", "records", None, 0, 0)}
    /\ recv' = {}
    /\ UNCHANGED <<slot, main, plus, chain, locked, inbox, sent>>

\* lines 69-94: GET /ddo/<did>
get_ddo(r, did) ==
    /\ slot[r].pc = "idle"
    /\ Drained
    /\ \E o \in dao_get_outcomes(did) :
         resp' = {IF o = "record"
                  THEN Response("get_ddo", did, 200, "json", "record", None, 0, 0)
                  ELSE Response("get_ddo", did, 404, "text",
                                "asset DID is not in OceanDB", "NotFound", 0, 0)}
    /\ recv' = {}
    /\ UNCHANGED <<slot, main, plus, chain, locked, inbox, sent>>

\* lines 117-141: GET /metadata/<did>
get_metadata(r, did) ==
    /\ slot[r].pc = "idle"
    /\ Drained
    /\ \E o \in dao_get_outcomes(did) :
         resp' = {IF o = "record"
                  THEN Response("get_metadata", did, 200, "json", "metadata",
                                None, 0, 0)
                  ELSE Response("get_metadata", did, 404, "text",
                                "asset DID is not in OceanDB", "NotFound", 0, 0)}
    /\ recv' = {}
    /\ UNCHANGED <<slot, main, plus, chain, locked, inbox, sent>>

-----------------------------------------------------------------------------
(* Specifications of the write path.                                       *)

Updater(r) ==
    \/ dao_get(r)
    \/ do_single_update_begin(r)
    \/ do_single_update_events(r)
    \/ do_single_update_main(r)
    \/ do_single_update_plus(r)
    \/ do_single_update_clear(r)

\* the credentials of the requests of Spec: those of a permitted updater
Authorized == {GoodBody}

Next ==
    \/ \E r \in Reqs, did \in Resolvable, remote \in RemoteAddrs,
          data \in Authorized :
         \/ update_ddo_info(r, did, remote, data)
         \/ delist_ddo(r, did, remote, data)
    \/ \E r \in Reqs : Updater(r)
    \/ \E d \in Resolvable, kind \in EventKinds : ChainEvent(d, kind)
    \/ Drain

\* two workers serving write requests that carry valid credentials, for the
\* records the Metadata Updater can reconcile, while the chain moves
Spec == Init /\ [][Next]_vars

\* the DIDs of the requests of SpecApi: one the updater can reconcile, one
\* with malformed linkage, one that is not stored
ApiDids == {"did:op:a", "did:op:bad", "did:op:zzz"}

\* one worker serving every request the endpoints can get, while the chain
\* moves
NextApi ==
    \/ \E did \in ApiDids, remote \in RemoteAddrs, data \in Bodies :
         \/ update_ddo_info("w1", did, remote, data)
         \/ delist_ddo("w1", did, remote, data)
    \/ Updater("w1")
    \/ get_assets_ids("w1") \/ get_asset_ddos("w1")
    \/ \E did \in ApiDids : get_ddo("w1", did) \/ get_metadata("w1", did)
    \/ \E kind \in EventKinds : ChainEvent("did:op:a", kind)
    \/ Drain

SpecApi == Init /\ [][NextApi]_vars

-----------------------------------------------------------------------------
(* POST /ddo/validate and POST /ddo/validate-remote.                       *)

\* a metadata document as the validators see it: it meets the schema or not
Documents == [valid : BOOLEAN]

\* a service descriptor: its type tag, and its attributes payload if any
ServiceEntries ==
    [type : {"metadata", "access"}, has_attributes : BOOLEAN,
     attributes : Documents]

SeqsUpTo(S, n) == UNION {[1..k -> S] : k \in 0..n}

\* the JSON objects handed to POST /ddo/validate-remote: with or without a
\* `service` key
Ddos ==
    {[has_service |-> FALSE, service |-> <<>>]} \cup
    {[has_service |-> TRUE, service |-> sv] :
        sv \in SeqsUpTo(ServiceEntries, MaxServices)}

\* plecos: is_valid_dict_local, is_valid_dict_remote
is_valid_dict_local(doc) == doc.valid
is_valid_dict_remote(doc) == doc.valid

\* what get_metadata_from_services hands back when the list holds no
\* metadata entry: an entry with no attributes
NoMetadata ==
    [type |-> None, has_attributes |-> FALSE, attributes |-> [valid |-> FALSE]]

\* util.get_metadata_from_services: the first entry whose type is "metadata"
get_metadata_from_services(services) ==
    LET found == {i \in 1..Len(services) : services[i].type = "metadata"}
    IN  IF found = {} THEN NoMetadata
        ELSE services[CHOOSE i \in found : \A j \in found : i <= j]

\* lines 221-250: POST /ddo/validate validates the document as submitted
validate ==
    /\ \E q \in inbox :
         /\ q.ep = "validate"
         /\ recv' = {q}
         /\ sent' = {[to |-> "is_valid_dict_local", doc |-> q.data]}
         /\ resp' = {Response("validate", None, 200, "json",
                              IF is_valid_dict_local(q.data)
                              THEN "true" ELSE "errors", None, 0, 0)}
    /\ inbox' = {}
    /\ UNCHANGED <<slot, main, plus, chain, locked>>

\* POST /ddo/validate-remote that validates the metadata service entry
\* itself: line 288 left out
validate_remote_whole_entry ==
    /\ \E q \in inbox :
         /\ q.ep = "validate_remote"
         /\ recv' = {q}
         /\ IF ~q.data.has_service
            THEN /\ resp' = {Response("validate_remote", None, 400, "json",
                                      "Invalid DDO format.", None, 0, 0)}
                 /\ sent' = {}
            ELSE LET data == get_metadata_from_services(q.data.service) IN
                 IF ~data.has_attributes
                 THEN /\ resp' = {Response("validate_remote", None, 400, "json",
                                           "Invalid DDO format.", None, 0, 0)}
                      /\ sent' = {}
                 ELSE /\ sent' = {[to |-> "is_valid_dict_remote", doc |-> data]}
                      /\ resp' = {Response("validate_remote", None, 200, "json",
                                           "errors", None, 0, 0)}
    /\ inbox' = {}
    /\ UNCHANGED <<slot, main, plus, chain, locked>>

\* lines 253-294: POST /ddo/validate-remote
validate_remote ==
    /\ \E q \in inbox :
         /\ q.ep = "validate_remote"
         /\ recv' = {q}
         /\ IF ~q.data.has_service
            THEN /\ resp' = {Response("validate_remote", None, 400, "json",
                                      "Invalid DDO format.", None, 0, 0)}
                 /\ sent' = {}
            ELSE LET data == get_metadata_from_services(q.data.service) IN
                 IF ~data.has_attributes
                 THEN /\ resp' = {Response("validate_remote", None, 400, "json",
                                           "Invalid DDO format.", None, 0, 0)}
                      /\ sent' = {}
                 ELSE LET attributes == data.attributes IN
                      /\ sent' = {[to |-> "is_valid_dict_remote",
                                   doc |-> attributes]}
                      /\ resp' = {Response("validate_remote", None, 200, "json",
                                           IF is_valid_dict_remote(attributes)
                                           THEN "true" ELSE "errors",
                                           None, 0, 0)}
    /\ inbox' = {}
    /\ UNCHANGED <<slot, main, plus, chain, locked>>

InitValidate ==
    /\ Init!1 /\ Init!2 /\ Init!3 /\ Init!4 /\ Init!5 /\ Init!6 /\ Init!7
    /\ sent = {}
    /\ inbox \in {{[ep |-> "validate_remote", data |-> d]} : d \in Ddos}
               \cup {{[ep |-> "validate", data |-> d]} : d \in Documents}

NextValidate == validate \/ validate_remote \/ Drain

\* one validation request, drawn from every document shape
SpecValidate == InitValidate /\ [][NextValidate]_vars

-----------------------------------------------------------------------------
(* POST /ddo/query.                                                        *)
(* A query string is a sequence of tokens: "did", ":op", ":" and the       *)
(* backslash, so that did:op: is three tokens and did\:op\: is five.       *)

Tokens == {"did", ":op", ":", "\\"}

\* line 193: did_str = "did:op:"
did_str == <<"did", ":op", ":">>

\* line 194: the Python literal "did\\\:op\\\:" is did, two backslashes, :op,
\* two backslashes, : -- the JSON text of the value did\:op\:
esc_did_str == <<"did", "\\", "\\", ":op", "\\", "\\", ":">>

\* line 198, line 199: the defaults of page and offset
DefaultPage == 1
DefaultOffset == 100

IsPrefixAt(s, pat, i) ==
    /\ i + Len(pat) - 1 <= Len(s)
    /\ \A k \in 1..Len(pat) : s[i + k - 1] = pat[k]

\* str.replace(old, new): every non-overlapping occurrence, leftmost first
RECURSIVE replace(_, _, _)
replace(s, old, new) ==
    IF s = <<>> THEN <<>>
    ELSE IF IsPrefixAt(s, old, 1)
         THEN new \o replace(SubSeq(s, Len(old) + 1, Len(s)), old, new)
         ELSE <<Head(s)>> \o replace(Tail(s), old, new)

\* json.dumps of a string: a backslash is written as two
RECURSIVE json_dumps(_)
json_dumps(v) ==
    IF v = <<>> THEN <<>>
    ELSE (IF Head(v) = "\\" THEN <<"\\", "\\">> ELSE <<Head(v)>>)
         \o json_dumps(Tail(v))

\* json.loads of a string: two backslashes are read as one; a backslash
\* before anything else here is no JSON escape
RECURSIVE json_loads(_)
json_loads(t) ==
    IF t = <<>> THEN <<>>
    ELSE IF Head(t) # "\\" THEN <<Head(t)>> \o json_loads(Tail(t))
    ELSE IF Len(t) >= 2 /\ t[2] = "\\"
         THEN <<"\\">> \o json_loads(SubSeq(t, 3, Len(t)))
         ELSE <<"JSONDecodeError">>

\* the two replacements in the other order
escape_dids_swapped(query) ==
    LET querystr == json_dumps(query)
        escaped == replace(querystr, did_str, esc_did_str)
    IN  json_loads(replace(escaped, esc_did_str, did_str))

\* lines 192-196: the query as rewritten before it goes to the store
escape_dids(query) ==
    LET querystr == json_dumps(query)
        unescaped == replace(querystr, esc_did_str, did_str)
    IN  json_loads(replace(unescaped, did_str, esc_did_str))

\* dict.setdefault on a key held as a set: empty when the key is absent
setdefault(field, default) == IF field = {} THEN {default} ELSE field

\* lines 187-213.  A body whose query has no query_string fails the
\* assertion of line 191: Flask answers 500.
es_query_ddo ==
    /\ \E q \in inbox :
         /\ q.ep = "es_query_ddo"
         /\ recv' = {q}
         /\ IF ~q.data.query_string
            THEN /\ sent' = {}
                 /\ resp' = {Response("es_query_ddo", None, 500, "html",
                                      "AssertionError", "AssertionError", 0, 0)}
            ELSE /\ sent' = {[to |-> "dao.run_es_query",
                              doc |-> [query_string |-> TRUE,
                                       query |-> escape_dids(q.data.query),
                                       sort |-> q.data.sort,
                                       page |-> setdefault(q.data.page,
                                                           DefaultPage),
                                       offset |-> setdefault(q.data.offset,
                                                             DefaultOffset)]]}
                 /\ resp' = {Response("es_query_ddo", None, 200, "json",
                                      "page of results", None, 0, 0)}
    /\ inbox' = {}
    /\ UNCHANGED <<slot, main, plus, chain, locked>>

\* what the caller supplies beside the query: sort and page but no offset,
\* or offset alone (the rewriting does not read them: the second is drawn
\* with the shortest queries only)
PageOnly == [sort |-> {"created"}, page |-> {2}, offset |-> {}]
OffsetOnly == [sort |-> {}, page |-> {}, offset |-> {50}]

QueryBody(q, o) ==
    [query_string |-> TRUE, query |-> q, sort |-> o.sort, page |-> o.page,
     offset |-> o.offset]

\* a body whose query holds no query_string key
NoQueryString ==
    [query_string |-> FALSE, query |-> <<>>, sort |-> {}, page |-> {},
     offset |-> {}]

InitQuery ==
    /\ Init!1 /\ Init!2 /\ Init!3 /\ Init!4 /\ Init!5 /\ Init!6 /\ Init!7
    /\ sent = {}
    /\ \/ \E k \in 0..MaxLen : \E q \in [1..k -> Tokens] :
            inbox = {[ep |-> "es_query_ddo", data |-> QueryBody(q, PageOnly)]}
       \/ \E k \in 0..1 : \E q \in [1..k -> Tokens] :
            inbox = {[ep |-> "es_query_ddo", data |-> QueryBody(q, OffsetOnly)]}
       \/ inbox = {[ep |-> "es_query_ddo", data |-> NoQueryString]}

NextQuery == es_query_ddo \/ Drain

\* one search request, drawn from every query string
SpecQuery == InitQuery /\ [][NextQuery]_vars

-----------------------------------------------------------------------------
(* Claims about the write endpoints.                                       *)

WriteEndpoints == {"update_ddo_info", "delist_ddo"}

\* the second condition of the authorization rule: adminAddress is on the
\* allow-list and the signature recovers to an address equal to it, case
\* aside
CredentialsHold(data) ==
    /\ data.adminAddress \in AllowList
    /\ data.signature \in Signatures
    /\ \E a \in Addresses :
         /\ get_signer_address(data.adminAddress, data.signature) = a
         /\ Lower(a) = Lower(data.adminAddress)

\* the authorization rule applied to one received request x
RuleDecides(x) ==
    /\ x.pass <=> (x.remote = Loopback \/ CredentialsHold(x.data))
    /\ ~x.pass => (resp # {} /\ \A y \in resp : y.status = 401)
    /\ x.pass => resp = {}

\* C1 as stated: every PUT /ddo/update/<did> request, the empty object
\* included, is authorized iff it comes from 127.0.0.1 or carries the
\* credentials of a permitted updater, and is answered 401 otherwise.
C1_Original ==
    \A x \in recv : x.ep = "update_ddo_info" => RuleDecides(x)

\* C1 amended: every PUT /ddo/update/<did> request whose JSON body is a
\* non-empty object is authorized iff it comes from 127.0.0.1 or carries the
\* credentials of a permitted updater, and is answered 401 otherwise.
C1_UpdateAuthorization ==
    \A x \in recv :
        (x.ep = "update_ddo_info" /\ NonEmpty(x.data)) => RuleDecides(x)

\* a PUT from another host is authorized by a signature whose recovered
\* address differs from adminAddress in case only
C1_Witness ==
    \E x \in recv :
        /\ x.ep = "update_ddo_info"
        /\ x.remote # Loopback
        /\ x.data.adminAddress = "0xab"
        /\ get_signer_address("0xab", x.data.signature) = "0xAB"
        /\ x.pass

\* C2: a step that answers 401 on PUT or DELETE leaves the main and plus
\* indices as they were, leaves every worker where it was (no record was
\* read), and the refused request made no do_single_update call and no write.
C2_UnauthorizedNoEffect ==
    [][ (\E y \in resp' : y.status = 401) =>
          /\ main' = main
          /\ plus' = plus
          /\ slot' = slot
          /\ \A y \in resp' :
               y.ep \in WriteEndpoints /\ y.calls = 0 /\ y.writes = 0 ]_vars

\* a request is refused with 401 after reconciliations have written the store
C2_Witness ==
    /\ \E y \in resp : y.status = 401 /\ y.ep = "delist_ddo"
    /\ \E d \in Resolvable : main[d].marker > 0 /\ ~main[d].dirty

\* C3: DELETE /ddo/<did> takes the authorization decision PUT
\* /ddo/update/<did> takes on the same remote address and body.
C3_DelistSameAsUpdate ==
    \A x \in recv :
        x.ep = "delist_ddo" =>
            (x.pass <=> (/\ NonEmpty(x.data)
                         /\ (x.remote = Loopback \/ signed_by_admin(x.data))))

\* C4: an authorized PUT /ddo/update/<did> answers 404 iff the DID is not in
\* the main index and 200 "acknowledged." iff the DID was found and
\* do_single_update completed; a failure on a known DID is neither.
C4_StatusMapping ==
    \A y \in resp :
        (y.ep = "update_ddo_info" /\ y.status \in {200, 404}) =>
            /\ y.status = 404 <=> y.did \notin InMain
            /\ y.status = 200 => (y.body = "acknowledged." /\ y.err = None)
            /\ y.err # None => y.did \notin InMain

\* C5: every response a handler returns is JSON, the 404 of GET /ddo/<did>
\* and the 404 of GET /metadata/<did> excepted.  (The 500 of a failed payload
\* assertion is Flask's, not a handler's, and is left aside.)
C5_JsonResponses ==
    \A y \in resp :
        (y.err # "AssertionError" /\ y.fmt # "json") =>
            (y.ep \in {"get_ddo", "get_metadata"} /\ y.status = 404)

-----------------------------------------------------------------------------
(* Claims about the Metadata Updater.                                      *)

\* worker r is inside do_single_update, past its entry
InFlight(r) == slot[r].pc \in {"events", "main", "plus", "clear"}

\* the plus entry of d is not the one its main record calls for
Disagree(d) == plus[d] # Expected(main[d])

\* d is reconciled: its marker is at the latest event and it is not dirty
UpToDate(d) == main[d].marker = Len(chain[d]) /\ ~main[d].dirty

Returns(r, d) == slot[r].did = d /\ InFlight(r) /\ slot'[r].pc = "idle"

Repairing(r) == slot[r].pc \in {"plus", "clear"} /\ slot[r].seen = 0

-----------------------------------------------------------------------------
(* Claims about POST /ddo/validate-remote.                                 *)

\* the body can supply an attributes object: it has a `service` key whose
\* metadata entry holds `attributes`
ShapeValid(ddo) ==
    /\ ddo.has_service
    /\ \E i \in 1..Len(ddo.service) :
         /\ ddo.service[i].type = "metadata"
         /\ ddo.service[i].has_attributes
         /\ \A j \in 1..(i - 1) : ddo.service[j].type # "metadata"

\* the attributes of the metadata entry of a body of valid shape
AttributesOf(ddo) ==
    LET i == CHOOSE k \in 1..Len(ddo.service) :
                 /\ ddo.service[k].type = "metadata"
                 /\ \A j \in 1..(k - 1) : ddo.service[j].type # "metadata"
    IN  ddo.service[i].attributes

-----------------------------------------------------------------------------
(* Claims about POST /ddo/query.                                           *)

\* the escaped DID prefix as it stands in a query string: did\:op\:
esc_value == <<"did", "\\", ":op", "\\", ":">>

\* the occurrences of pat in s, counted as str.replace finds them
RECURSIVE Count(_, _)
Count(s, pat) ==
    IF s = <<>> THEN 0
    ELSE IF IsPrefixAt(s, pat, 1)
         THEN 1 + Count(SubSeq(s, Len(pat) + 1, Len(s)), pat)
         ELSE Count(Tail(s), pat)

\* a query string with every escaped DID prefix unescaped, and with every
\* unescaped one escaped
Unescaped(v) == replace(v, esc_value, did_str)
Escaped(v) == replace(v, did_str, esc_value)

\* C10: the query handed to dao.run_es_query holds no unescaped DID prefix;
\* it holds as many escaped prefixes as the incoming query holds prefixes,
\* escaped or not; it is the incoming query but for the escaping; it is the
\* same for the incoming query with its prefixes all escaped, all unescaped
\* or as they are; rewriting it again changes nothing; and sort, page and
\* offset are the caller's, or the defaults 1 and 100.
C10_DidEscaping ==
    \A x \in recv :
        (x.ep = "es_query_ddo" /\ x.data.query_string) =>
            /\ sent # {}
            /\ \A y \in sent :
                 LET given == x.data.query
                     out == y.doc.query
                 IN  /\ y.to = "dao.run_es_query"
                     /\ Count(out, did_str) = 0
                     /\ Count(out, esc_value) = Count(Unescaped(given), did_str)
                     /\ Unescaped(out) = Unescaped(given)
                     /\ out = escape_dids(Unescaped(given))
                     /\ out = escape_dids(Escaped(given))
                     /\ escape_dids(out) = out
                     /\ y.doc.sort = x.data.sort
                     /\ y.doc.page = setdefault(x.data.page, 1)
                     /\ y.doc.offset = setdefault(x.data.offset, 100)
                     /\ x.data.page # {} => y.doc.page = x.data.page
                     /\ x.data.offset # {} => y.doc.offset = x.data.offset

\* a query holding one escaped and one unescaped DID prefix has been
\* rewritten, with the caller's page and offset
C10_Witness ==
    \E x \in recv : \E y \in sent :
        /\ x.ep = "es_query_ddo"
        /\ Count(x.data.query, did_str) = 1
        /\ Count(x.data.query, esc_value) = 1
        /\ Count(y.doc.query, esc_value) = 2
        /\ y.doc.page = {2}

====
